---- MODULE Spec2Model ----
(***************************************************************************)
(* A model of code_jam.py: the Tokens reader (tokenize, next_token,        *)
(* next_many_tokens, next_counted_tokens), the counted and the sequence    *)
(* driver (solve_code_jam, generator_solve_code_jam), the dispatch of      *)
(* autosolve, and the formatter print_code_jam.                            *)
(*                                                                         *)
(* Text is a sequence of one-character strings, so that splitting on       *)
(* whitespace, int() and str() are computed and not assumed.               *)
(***************************************************************************)
EXTENDS Integers, Sequences, FiniteSets

\* Bounds of the model: the longest input stream that is enumerated.
MaxChars == 4

\* ------------------------------------------------------------------ text

DigitChars == <<"0", "1", "2", "3", "4", "5", "6", "7", "8", "9">>

IsDigit(c) == \E i \in 1..10 : DigitChars[i] = c

DigitVal(c) == (CHOOSE i \in 1..10 : DigitChars[i] = c) - 1

\* A split that knows the blank only.
IsSpaceBlankOnly(c) == c = " "

\* str.split() with no argument splits on runs of whitespace.
IsSpace(c) == c \in {" ", "\n", "\t", "\r"}

\* The characters the enumerated inputs are made of.
Alphabet == {"0", "1", "2", " ", "\n", "x"}

CharStreams(n) == UNION {[1..k -> Alphabet] : k \in 0..n}

\* "3\n1 2\n3 4\n5 6\n"
ExampleInput ==
    <<"3", "\n", "1", " ", "2", "\n", "3", " ", "4", "\n", "5", " ", "6", "\n">>

\* "2 1 2 0 1": two cases for either counted solver, with tokens left over.
LongInput == <<"2", " ", "1", " ", "2", " ", "0", " ", "1">>

\* "2\n1\nx": the second case's token is not a number.
BadInput == <<"2", "\n", "1", "\n", "x">>

\* "1 2\n7\n": one case for either counted solver, and a line after it.
TrailingInput == <<"1", " ", "2", "\n", "7", "\n">>

\* The streams that start with a minus sign.
SignedStreams(n) == {<<"-">> \o s : s \in CharStreams(n - 1)}

Inputs ==
    CharStreams(MaxChars) \cup SignedStreams(MaxChars)
        \cup {ExampleInput, LongInput, BadInput, TrailingInput}

\* The length of the leading run of non-whitespace characters of `line`.
WordLen(line) ==
    IF \E i \in 1..Len(line) : IsSpace(line[i])
    THEN (CHOOSE i \in 1..Len(line) :
              IsSpace(line[i]) /\ \A j \in 1..(i - 1) : ~IsSpace(line[j])) - 1
    ELSE Len(line)

RECURSIVE split(_)
\* line.split(): the maximal runs of non-whitespace characters, in order.
split(line) ==
    IF line = <<>> THEN <<>>
    ELSE IF IsSpace(Head(line)) THEN split(Tail(line))
    ELSE <<SubSeq(line, 1, WordLen(line))>>
             \o split(SubSeq(line, WordLen(line) + 1, Len(line)))

\* A tokenizer that takes the whole rest of the stream for one line.
LineEndSlurp(s, pos) == Len(s)

\* `for line in istr`: the end of the line that starts after position pos
\* (a line ends with its "\n", the last one at the end of the stream).
LineEnd(s, pos) ==
    IF \E i \in (pos + 1)..Len(s) : s[i] = "\n"
    THEN CHOOSE i \in (pos + 1)..Len(s) :
             s[i] = "\n" /\ \A j \in (pos + 1)..(i - 1) : s[j] # "\n"
    ELSE Len(s)

readline(s, pos) == SubSeq(s, pos + 1, LineEnd(s, pos))

RECURSIVE tokenize(_, _)
\* Tokens.tokenize run to its end from position pos: every token it yields.
tokenize(s, pos) ==
    IF pos >= Len(s) THEN <<>>
    ELSE split(readline(s, pos)) \o tokenize(s, LineEnd(s, pos))

RECURSIVE next_raw(_, _, _)
\* next(self.tokens): resume the tokenize generator, whose state is the
\* position pos in the stream and the rest c of the current line's split.
\* ok = FALSE is StopIteration.
next_raw(s, pos, c) ==
    IF c # <<>> THEN [ok |-> TRUE, tok |-> Head(c), pos |-> pos, cur |-> Tail(c)]
    ELSE IF pos >= Len(s) THEN [ok |-> FALSE, tok |-> <<>>, pos |-> pos, cur |-> <<>>]
    ELSE next_raw(s, LineEnd(s, pos), split(readline(s, pos)))

\* int(tok) accepts an optional sign and then one or more digits.
Unsigned(tok) == IF tok # <<>> /\ Head(tok) \in {"-", "+"} THEN Tail(tok) ELSE tok

int_ok(tok) ==
    /\ Unsigned(tok) # <<>>
    /\ \A i \in 1..Len(Unsigned(tok)) : IsDigit(Unsigned(tok)[i])

RECURSIVE Horner(_)
Horner(ds) ==
    IF ds = <<>> THEN 0
    ELSE 10 * Horner(SubSeq(ds, 1, Len(ds) - 1)) + DigitVal(ds[Len(ds)])

int(tok) == IF Head(tok) = "-" THEN 0 - Horner(Unsigned(tok)) ELSE Horner(Unsigned(tok))

RECURSIVE StrNat(_)
StrNat(n) == IF n < 10 THEN <<DigitChars[n + 1]>>
             ELSE StrNat(n \div 10) \o <<DigitChars[(n % 10) + 1]>>

\* str(n) of an integer.
str(n) == IF n < 0 THEN <<"-">> \o StrNat(0 - n) ELSE StrNat(n)

\* A next_token that hands out 0 for a token int() rejects.
next_token_lenient(s, pos, c, t) ==
    LET r == next_raw(s, pos, c) IN
    IF ~r.ok THEN [exc |-> "StopIteration", val |-> 0, tok |-> <<>>,
                   pos |-> r.pos, cur |-> r.cur]
    ELSE [exc |-> "none",
          val |-> IF t = "int" THEN (IF int_ok(r.tok) THEN int(r.tok) ELSE 0) ELSE r.tok,
          tok |-> r.tok, pos |-> r.pos, cur |-> r.cur]

\* Tokens.next_token(t) on the tokenizer state (pos, c): the exception it
\* raises ("none" when it returns), the value, the token taken from the stream
\* (none on StopIteration), and the tokenizer state after.
next_token(s, pos, c, t) ==
    LET r == next_raw(s, pos, c) IN
    IF ~r.ok THEN [exc |-> "StopIteration", val |-> 0, tok |-> <<>>,
                   pos |-> r.pos, cur |-> r.cur]
    ELSE IF t = "int" /\ ~int_ok(r.tok)
         THEN [exc |-> "ValueError", val |-> 0, tok |-> r.tok, pos |-> r.pos, cur |-> r.cur]
    ELSE [exc |-> "none", val |-> IF t = "int" THEN int(r.tok) ELSE r.tok,
          tok |-> r.tok, pos |-> r.pos, cur |-> r.cur]

\* ------------------------------------------------------------- the state

VARIABLES
    istr,            \* the input stream: a sequence of characters
    solver,          \* the caller's solver: "one", "sum2" or "gen"
    insert_newline,  \* the insert_newline argument
    ipos,            \* tokenize: characters of istr read so far (whole lines)
    cur,             \* tokenize: the tokens of the current line not yet yielded
    reads,           \* history: for each token delivered, the reader it went to
    delivered,       \* history: the tokens next(self.tokens) has delivered, in order
    pc,              \* where the run is: "start", "next", "solving", "print", "done"
    driver,          \* "none" before the dispatch, then "counted" or "sequence"
    gen,             \* the solve generator: "fresh" (not started) or "loop"
    left,            \* iterations left in range(n) of solve
    toRead,          \* tokens the running solver call still has to read
    acc,             \* the running solver call's sum so far
    solution,        \* the solution bound by the for loop of print_code_jam
    count,           \* enumerate's counter: the index of the next solution
    case,            \* the case index bound by the for loop of print_code_jam
    sink,            \* the characters the sink has received
    sinkBroken,      \* the sink's consumer has gone: a write raises BrokenPipeError
    sigpipe,         \* the SIGPIPE disposition: "python" or "SIG_DFL"
    outcome,         \* "running", "returned" or "raised"
    err,             \* the exception that reached the caller ("none" if none)
    produced,        \* history: the solutions the for loop has received
    solverCalls,     \* history: the number of invocations of the solver
    driverReads,     \* history: the tokens read by the driver itself
    flushed,         \* history: the number of records written and flushed
    brokenAfter,     \* history: the value of flushed when the sink broke (-1: never)
    pipeHit,         \* history: a print ran into the broken sink
    readFailed,      \* history: the exception of a failed token read ("none" if none)
    last,            \* a caller of Tokens: its last call and what came of it
    gens             \* a caller of Tokens: the next_many_tokens generators it holds

cfgVars == <<istr, solver, insert_newline>>
apiVars == <<last, gens>>
tokVars == <<ipos, cur, reads, delivered>>
genVars == <<gen, left, toRead, acc>>
outVars == <<sink, flushed>>
endVars == <<sigpipe, outcome, err, readFailed>>
loopVars == <<solution, count, case, produced>>
vars == <<cfgVars, apiVars, tokVars, genVars, outVars, endVars, loopVars,
          pipeHit, pc, driver, sinkBroken, solverCalls, driverReads, brokenAfter>>

Solvers == {"one", "sum2", "gen"}

\* The tokens one call of the solver reads: `return tokens.next_token(int)`
\* and `return tokens.next_token(int) + tokens.next_token(int)`.
Arity(s) == IF s = "sum2" THEN 2 ELSE 1

\* inspect.isgeneratorfunction(solver)
isgeneratorfunction(s) == s = "gen"

\* No call of the Tokens methods made yet.
NoCall == [op |-> "none", t |-> "none", exc |-> "none", val |-> 0, at |-> 0]

Init ==
    /\ istr \in Inputs
    /\ solver \in Solvers
    /\ insert_newline \in BOOLEAN
    /\ ipos = 0 /\ cur = <<>> /\ reads = <<>> /\ delivered = <<>>
    /\ pc = "start" /\ driver = "none"
    /\ gen = "fresh" /\ left = 0 /\ toRead = 0 /\ acc = 0
    /\ solution = 0 /\ count = 1 /\ case = 0 /\ produced = <<>>
    /\ sink = <<>> /\ flushed = 0
    /\ sinkBroken = FALSE /\ brokenAfter = -1
    /\ sigpipe = "python" /\ outcome = "running" /\ err = "none"
    /\ pipeHit = FALSE /\ readFailed = "none"
    /\ solverCalls = 0 /\ driverReads = 0
    /\ last = NoCall /\ gens = <<>>

\* ------------------------------------------------------- print_code_jam

CaseChars == <<"C", "a", "s", "e", " ", "#">>

\* A formatter that numbers the cases from 0.
format_case_from_zero(k) == CaseChars \o str(k - 1) \o <<":">>

\* format_case = "Case #{}:".format
format_case(k) == CaseChars \o str(k) \o <<":">>

\* The separator with the two branches exchanged.
sep_swapped(nl) == IF nl THEN <<" ">> ELSE <<"\n">>

\* sep = '\n' if insert_newline else ' '
sep(nl) == IF nl THEN <<"\n">> ELSE <<" ">>

\* What print(format_case(case), solution, sep=sep, file=ostr) writes.
print_text(k, v, nl) == format_case(k) \o sep(nl) \o str(v) \o <<"\n">>

\* print_code_jam's for loop ends: the function returns.
Return ==
    /\ outcome' = "returned" /\ err' = "none" /\ pc' = "done"
    /\ UNCHANGED sigpipe

\* A try block without its except clause: every exception goes on.
ExceptNothing(e) ==
    /\ pc' = "done"
    /\ outcome' = "raised" /\ err' = e /\ UNCHANGED sigpipe

\* An except clause that drops the BrokenPipeError and goes on with the loop.
ExceptContinue(e) ==
    IF e = "BrokenPipeError"
    THEN pc' = "next" /\ sigpipe' = "SIG_DFL" /\ UNCHANGED <<outcome, err>>
    ELSE pc' = "done" /\ outcome' = "raised" /\ err' = e /\ UNCHANGED sigpipe

\* An exception e reaches the try block of print_code_jam: BrokenPipeError is
\* caught (the SIGPIPE disposition is reset, the function returns), any other
\* one goes on to the caller.
Except(e) ==
    /\ pc' = "done"
    /\ IF e = "BrokenPipeError"
       THEN outcome' = "returned" /\ err' = "none" /\ sigpipe' = "SIG_DFL"
       ELSE outcome' = "raised" /\ err' = e /\ UNCHANGED sigpipe

\* What an exception e raised in a generator's frame becomes for the one who
\* called next() on it. A StopIteration leaving the frame ends the generator
\* ("end": the consumer's loop ends as if the generator had returned) on the
\* interpreters before PEP 479, and is replaced by RuntimeError on those after.
Leaves(e) == IF e = "StopIteration" THEN {"end", "RuntimeError"} ELSE {e}

\* The solutions pulled outside the try block: what leaves the generator is
\* not caught.
GenRaiseUncaught(e) ==
    \E r \in Leaves(e) : IF r = "end" THEN Return ELSE ExceptNothing(r)

\* An exception e leaves the generator that print_code_jam iterates.
GenRaise(e) ==
    \E r \in Leaves(e) : IF r = "end" THEN Return ELSE Except(r)

\* The for loop receives the next solution v from enumerate(solutions, 1).
Yield(v) ==
    /\ solution' = v /\ case' = count /\ count' = count + 1
    /\ produced' = Append(produced, v)
    /\ pc' = "print"

\* A print without flush=True: the record stays in the stream's buffer and
\* the loop goes on.
PrintNoFlush ==
    /\ pc = "print"
    /\ pc' = "next"
    /\ UNCHANGED <<cfgVars, apiVars, tokVars, genVars, loopVars, outVars, endVars,
                   pipeHit, driver, sinkBroken, solverCalls, driverReads, brokenAfter>>

\* print(..., file=ostr, flush=True): the record reaches the sink, or the
\* sink is broken and the call raises BrokenPipeError.
PrintFlush ==
    /\ pc = "print"
    /\ IF sinkBroken
       THEN /\ Except("BrokenPipeError")
            /\ pipeHit' = TRUE
            /\ UNCHANGED outVars
       ELSE /\ sink' = sink \o print_text(case, solution, insert_newline)
            /\ flushed' = flushed + 1
            /\ pc' = "next"
            /\ UNCHANGED <<sigpipe, outcome, err, pipeHit>>
    /\ UNCHANGED <<cfgVars, apiVars, tokVars, genVars, loopVars, readFailed,
                   driver, sinkBroken, solverCalls, driverReads, brokenAfter>>

\* The consumer of the output goes away (head, a closed pipe).
BreakPipe ==
    /\ outcome = "running" /\ ~sinkBroken
    /\ sinkBroken' = TRUE /\ brokenAfter' = flushed
    /\ UNCHANGED <<cfgVars, apiVars, pipeHit, tokVars, genVars, outVars, endVars, loopVars,
                   pc, driver, solverCalls, driverReads>>

\* ------------------------------------------------------------ the drivers

\* A dispatch that takes every solver for a plain function.
ChooseCounted(s) == "counted"

\* autosolve.decorator: the driver is chosen by the solver's shape.
ChooseDriver(s) == IF isgeneratorfunction(s) THEN "sequence" ELSE "counted"

\* generator_solve_code_jam calls solver(Tokens(istr)): the caller's generator
\* function itself (one invocation), or solve, which solve_code_jam wraps
\* around the caller's function (no invocation yet).
FirstCalls(d) == IF d = "sequence" THEN 1 ELSE 0

Dispatch ==
    /\ pc = "start"
    /\ driver' = ChooseDriver(solver)
    /\ solverCalls' = FirstCalls(driver')
    /\ pc' = "next"
    /\ UNCHANGED <<cfgVars, apiVars, pipeHit, tokVars, genVars, outVars, endVars, loopVars,
                   sinkBroken, driverReads, brokenAfter>>

\* solve, first resumption: range(tokens.next_token(int)).
ReadCount ==
    /\ pc = "next" /\ driver = "counted" /\ gen = "fresh"
    /\ LET r == next_token(istr, ipos, cur, "int") IN
       /\ ipos' = r.pos /\ cur' = r.cur
       /\ IF r.exc = "none"
          THEN /\ left' = r.val /\ gen' = "loop"
               /\ reads' = Append(reads, 0)
               /\ delivered' = Append(delivered, r.tok)
               /\ driverReads' = driverReads + 1
               /\ UNCHANGED <<pc, endVars>>
          ELSE /\ readFailed' = r.exc
               /\ reads' = IF r.exc = "ValueError" THEN Append(reads, 0) ELSE reads
               /\ delivered' = IF r.exc = "ValueError" THEN Append(delivered, r.tok)
                               ELSE delivered
               /\ driverReads' = IF r.exc = "ValueError" THEN driverReads + 1
                                 ELSE driverReads
               /\ GenRaise(r.exc)
               /\ UNCHANGED <<left, gen>>
    /\ UNCHANGED <<cfgVars, apiVars, pipeHit, toRead, acc, outVars, loopVars,
                   driver, sinkBroken, solverCalls, brokenAfter>>

\* A range that takes a negative count for its magnitude.
range_abs(n) == IF n < 0 THEN 0 - n ELSE n

\* A loop that runs one iteration short.
range_short(n) == IF n < 1 THEN 0 ELSE n - 1

\* A loop that runs one iteration too many.
range_inclusive(n) == IF n < 0 THEN 0 ELSE n + 1

\* The number of iterations of `for _ in range(n)`.
range(n) == IF n < 0 THEN 0 ELSE n

\* A driver that hands every call of the solver a new Tokens over the stream.
CallSolverRewind ==
    /\ pc = "next" /\ driver = "counted" /\ gen = "loop"
    /\ ~isgeneratorfunction(solver)
    /\ range(left) > 0
    /\ left' = left - 1
    /\ solverCalls' = solverCalls + 1
    /\ toRead' = Arity(solver) /\ acc' = 0
    /\ ipos' = 0 /\ cur' = <<>>
    /\ pc' = "solving"
    /\ UNCHANGED <<cfgVars, apiVars, pipeHit, reads, delivered, gen, outVars, endVars,
                   loopVars, driver, sinkBroken, driverReads, brokenAfter>>

\* solve, loop: one more iteration calls solver(tokens).
CallSolver ==
    /\ pc = "next" /\ driver = "counted" /\ gen = "loop"
    /\ ~isgeneratorfunction(solver)
    /\ range(left) > 0
    /\ left' = left - 1
    /\ solverCalls' = solverCalls + 1
    /\ toRead' = Arity(solver) /\ acc' = 0
    /\ pc' = "solving"
    /\ UNCHANGED <<cfgVars, apiVars, pipeHit, tokVars, gen, outVars, endVars, loopVars,
                   driver, sinkBroken, driverReads, brokenAfter>>

\* The solver reads one token: tokens.next_token(int).
SolverRead ==
    /\ pc = "solving" /\ toRead > 0
    /\ LET r == next_token(istr, ipos, cur, "int") IN
       /\ ipos' = r.pos /\ cur' = r.cur
       /\ IF r.exc = "none"
          THEN /\ acc' = acc + r.val /\ toRead' = toRead - 1
               /\ reads' = Append(reads, solverCalls)
               /\ delivered' = Append(delivered, r.tok)
               /\ UNCHANGED <<pc, endVars>>
          ELSE /\ readFailed' = r.exc
               /\ reads' = IF r.exc = "ValueError" THEN Append(reads, solverCalls)
                           ELSE reads
               /\ delivered' = IF r.exc = "ValueError" THEN Append(delivered, r.tok)
                               ELSE delivered
               /\ GenRaise(r.exc)
               /\ UNCHANGED <<acc, toRead>>
    /\ UNCHANGED <<cfgVars, apiVars, pipeHit, gen, left, outVars, loopVars,
                   driver, sinkBroken, solverCalls, driverReads, brokenAfter>>

\* The solver returns and solve yields its result.
SolverReturn ==
    /\ pc = "solving" /\ toRead = 0
    /\ Yield(acc)
    /\ UNCHANGED <<cfgVars, apiVars, pipeHit, tokVars, genVars, outVars, endVars,
                   driver, sinkBroken, solverCalls, driverReads, brokenAfter>>

\* solve, loop: range(n) is used up, the generator returns.
LoopExit ==
    /\ pc = "next" /\ driver = "counted" /\ gen = "loop"
    /\ range(left) = 0
    /\ Return
    /\ UNCHANGED <<cfgVars, apiVars, pipeHit, tokVars, genVars, outVars, loopVars, readFailed,
                   driver, sinkBroken, solverCalls, driverReads, brokenAfter>>

\* The caller's generator function, `for tok in tokens: yield int(tok)`, is
\* resumed: it yields the next token as an integer, or returns at the end of
\* the input.
ProducerNext ==
    /\ pc = "next" /\ driver = "sequence"
    /\ LET r == next_raw(istr, ipos, cur) IN
       /\ ipos' = r.pos /\ cur' = r.cur
       /\ IF ~r.ok
          THEN /\ Return
               /\ UNCHANGED <<reads, delivered, loopVars, readFailed>>
          ELSE /\ reads' = Append(reads, count)
               /\ delivered' = Append(delivered, r.tok)
               /\ IF int_ok(r.tok)
                  THEN /\ Yield(int(r.tok))
                       /\ UNCHANGED endVars
                  ELSE /\ readFailed' = "ValueError"
                       /\ GenRaise("ValueError")
                       /\ UNCHANGED loopVars
    /\ UNCHANGED <<cfgVars, apiVars, pipeHit, genVars, outVars,
                   driver, sinkBroken, solverCalls, driverReads, brokenAfter>>

\* The input file raises BrokenPipeError when tokenize, with no token of the
\* current line left, asks it for a line: the error goes up through
\* next_token and the solver into the generator print_code_jam iterates.
SourceBreaks ==
    /\ \/ pc = "next" /\ driver = "counted" /\ gen = "fresh"
       \/ pc = "next" /\ driver = "sequence"
       \/ pc = "solving" /\ toRead > 0
    /\ cur = <<>>
    /\ readFailed' = "BrokenPipeError"
    /\ GenRaise("BrokenPipeError")
    /\ UNCHANGED <<cfgVars, apiVars, pipeHit, tokVars, genVars, outVars, loopVars,
                   driver, sinkBroken, solverCalls, driverReads, brokenAfter>>

Next ==
    \/ Dispatch
    \/ ReadCount
    \/ CallSolver
    \/ SolverRead
    \/ SolverReturn
    \/ LoopExit
    \/ ProducerNext
    \/ PrintFlush
    \/ BreakPipe
    \/ SourceBreaks

Spec == Init /\ [][Next]_vars

\* The steps of the program that read no token, as distinct from what the
\* files at its two ends do to it.
Control == Dispatch \/ CallSolver \/ SolverReturn \/ LoopExit \/ PrintFlush

\* The steps of the program that read a token, and the states in which one
\* of them is the next thing to do (a read is never blocked: it delivers a
\* token or raises).
Read == ReadCount \/ SolverRead \/ ProducerNext

ReadDue ==
    \/ pc = "next" /\ driver = "counted" /\ gen = "fresh"
    \/ pc = "next" /\ driver = "sequence"
    \/ pc = "solving" /\ toRead > 0

\* The interpreter keeps running the program: a step of it that stays
\* possible is taken. For the reads this is weak fairness with the enabling
\* condition written out as ReadDue.
Fairness ==
    /\ WF_vars(Control)
    /\ ([]<>(~ReadDue) \/ []<><<Read>>_vars)

LiveSpec == Init /\ [][Next]_vars /\ Fairness

\* ------------------------------------------------- the Tokens methods

\* The generators a caller of Tokens holds at once.
MaxGens == 1

\* The generators a caller of next_many_tokens holds at once.
MaxHeld == 2

\* The largest n a caller passes to next_many_tokens.
MaxN == 2

\* The tokens of the streams a caller of next_many_tokens reads.
MaxToks == 2

\* The `t` arguments the caller passes: int, and str (the token as it is).
Types == {"int", "str"}

pipeVars == <<solver, insert_newline, genVars, outVars, endVars, loopVars,
              pipeHit, pc, driver, sinkBroken, solverCalls, driverReads, brokenAfter>>

\* A next_many_tokens whose loop runs once more than n times.
next_many_tokens_extra(n, t, at) ==
    [n |-> n, t |-> t, left |-> range(n) + 1, took |-> 0, vals |-> <<>>,
     state |-> "suspended", start |-> at, doneAt |-> -1, counted |-> FALSE]

\* Tokens.next_many_tokens(n, t), called when `at` tokens have been delivered:
\* the generator object it returns. Nothing of its body has run yet. (counted
\* records that next_counted_tokens made the call.)
next_many_tokens(n, t, at) ==
    [n |-> n, t |-> t, left |-> range(n), took |-> 0, vals |-> <<>>,
     state |-> "suspended", start |-> at, doneAt |-> -1, counted |-> FALSE]

\* A caller that holds a Tokens object over the stream and calls its methods
\* in any order.
TokStart ==
    /\ solver = "one" /\ insert_newline = FALSE
    /\ ipos = 0 /\ cur = <<>> /\ reads = <<>> /\ delivered = <<>>
    /\ pc = "api" /\ driver = "none"
    /\ gen = "fresh" /\ left = 0 /\ toRead = 0 /\ acc = 0
    /\ solution = 0 /\ count = 1 /\ case = 0 /\ produced = <<>>
    /\ sink = <<>> /\ flushed = 0
    /\ sinkBroken = FALSE /\ brokenAfter = -1
    /\ sigpipe = "python" /\ outcome = "idle" /\ err = "none"
    /\ pipeHit = FALSE /\ readFailed = "none"
    /\ solverCalls = 0 /\ driverReads = 0
    /\ last = NoCall /\ gens = <<>>

TokInit == istr \in Inputs /\ TokStart

\* tokens.next_token(t)
TNextToken ==
    /\ pc = "api"
    /\ \E t \in Types :
         LET r == next_token(istr, ipos, cur, t) IN
         /\ ipos' = r.pos /\ cur' = r.cur
         /\ reads' = IF r.exc = "StopIteration" THEN reads ELSE Append(reads, 0)
         /\ delivered' = IF r.exc = "StopIteration" THEN delivered
                         ELSE Append(delivered, r.tok)
         /\ last' = [op |-> "next_token", t |-> t, exc |-> r.exc, val |-> r.val,
                     at |-> Len(reads)]
    /\ UNCHANGED <<istr, gens, pipeVars>>

\* A next_many_tokens that runs its generator to the first yield at once.
TNextManyPrimed ==
    /\ pc = "api" /\ Len(gens) < MaxHeld
    /\ \E n \in (0 - 1)..MaxN, t \in Types :
         LET r == next_token(istr, ipos, cur, t) IN
         IF range(n) = 0 \/ r.exc # "none"
         THEN /\ gens' = Append(gens, next_many_tokens(n, t, Len(reads)))
              /\ last' = [op |-> "next_many_tokens", t |-> t, exc |-> "none",
                          val |-> n, at |-> Len(reads)]
              /\ UNCHANGED tokVars
         ELSE /\ ipos' = r.pos /\ cur' = r.cur
              /\ reads' = Append(reads, Len(gens) + 1)
              /\ delivered' = Append(delivered, r.tok)
              /\ gens' = Append(gens, [next_many_tokens(n, t, Len(reads))
                                          EXCEPT !.left = @ - 1, !.took = 1,
                                                 !.vals = <<r.val>>])
              /\ last' = [op |-> "next_many_tokens", t |-> t, exc |-> "none",
                          val |-> n, at |-> Len(reads)]
    /\ UNCHANGED <<istr, pipeVars>>

\* tokens.next_many_tokens(n, t): a generator object is made, nothing is read.
TNextMany ==
    /\ pc = "api" /\ Len(gens) < MaxHeld
    /\ \E n \in (0 - 1)..MaxN, t \in Types :
         /\ gens' = Append(gens, next_many_tokens(n, t, Len(reads)))
         /\ last' = [op |-> "next_many_tokens", t |-> t, exc |-> "none",
                     val |-> n, at |-> Len(reads)]
    /\ UNCHANGED <<istr, tokVars, pipeVars>>

\* tokens.next_counted_tokens(t): self.next_many_tokens(self.next_token(int), t)
TNextCounted ==
    /\ pc = "api" /\ Len(gens) < MaxGens
    /\ \E t \in Types :
         LET r == next_token(istr, ipos, cur, "int") IN
         /\ ipos' = r.pos /\ cur' = r.cur
         /\ reads' = IF r.exc = "StopIteration" THEN reads ELSE Append(reads, 0)
         /\ delivered' = IF r.exc = "StopIteration" THEN delivered
                         ELSE Append(delivered, r.tok)
         /\ last' = [op |-> "next_counted_tokens", t |-> t, exc |-> r.exc,
                     val |-> r.val, at |-> Len(reads)]
         /\ gens' = IF r.exc = "none"
                    THEN Append(gens, [next_many_tokens(r.val, t, Len(reads'))
                                           EXCEPT !.counted = TRUE])
                    ELSE gens
    /\ UNCHANGED <<istr, pipeVars>>

\* next(g) on a generator of next_many_tokens: the body runs to its next
\* `yield self.next_token(t)`, to its end, or to an exception.
TIter ==
    /\ pc = "api"
    /\ \E g \in DOMAIN gens :
         /\ gens[g].state = "suspended"
         /\ IF gens[g].left = 0
            THEN /\ gens' = [gens EXCEPT ![g].state = "finished",
                                         ![g].doneAt = Len(reads)]
                 /\ last' = [op |-> "next", t |-> gens[g].t, exc |-> "StopIteration",
                             val |-> 0, at |-> Len(reads)]
                 /\ UNCHANGED tokVars
            ELSE LET r == next_token(istr, ipos, cur, gens[g].t) IN
                 /\ ipos' = r.pos /\ cur' = r.cur
                 /\ reads' = IF r.exc = "StopIteration" THEN reads ELSE Append(reads, g)
                 /\ delivered' = IF r.exc = "StopIteration" THEN delivered
                                 ELSE Append(delivered, r.tok)
                 /\ IF r.exc = "none"
                    THEN /\ gens' = [gens EXCEPT ![g].left = @ - 1,
                                                 ![g].took = @ + 1,
                                                 ![g].vals = Append(@, r.val)]
                         /\ last' = [op |-> "next", t |-> gens[g].t, exc |-> "none",
                                     val |-> r.val, at |-> Len(reads)]
                    ELSE \E o \in Leaves(r.exc) :
                         /\ gens' = [gens EXCEPT
                                ![g].state = IF o = "end" THEN "finished" ELSE "raised",
                                ![g].took = IF r.exc = "ValueError" THEN @ + 1 ELSE @,
                                ![g].doneAt = Len(reads')]
                         /\ last' = [op |-> "next", t |-> gens[g].t,
                                     exc |-> IF o = "end" THEN "StopIteration" ELSE o,
                                     val |-> 0, at |-> Len(reads)]
    /\ UNCHANGED <<istr, pipeVars>>

TokNext ==
    \/ TNextToken
    \/ TNextCounted
    \/ TIter

TokSpec == TokInit /\ [][TokNext]_vars

\* The module as a whole: a run of the pipeline, or a caller of Tokens.
CoreSpec == (Init \/ TokInit) /\ [][Next \/ TokNext]_vars

\* The tokens of the streams a caller of next_many_tokens reads.
Words == {<<"1">>, <<"2">>, <<"x">>, <<"-", "1">>}

\* The stream that holds the tokens ts, one per line.
RECURSIVE JoinLines(_)
JoinLines(ts) ==
    IF ts = <<>> THEN <<>> ELSE ts[1] \o <<"\n">> \o JoinLines(Tail(ts))

ManyInputs == {JoinLines(ts) : ts \in UNION {[1..k -> Words] : k \in 0..MaxToks}}

\* A caller that also makes token sequences with next_many_tokens and holds
\* several of them at once.
ManyInit == istr \in ManyInputs /\ TokStart

ManyNext ==
    \/ TNextToken
    \/ TNextMany
    \/ TNextCounted
    \/ TIter

ManySpec == ManyInit /\ [][ManyNext]_vars

\* ------------------------------------------------------------ the claims

\* Every token of the input, as tokenize yields them from the start.
AllTokens == tokenize(istr, 0)

\* The first token of the input as a number: the case count.
CaseCount == int(AllTokens[1])

\* The index of the first "\n" of txt, Len(txt) + 1 when it has none.
FirstNewline(txt) ==
    IF \E i \in 1..Len(txt) : txt[i] = "\n"
    THEN CHOOSE i \in 1..Len(txt) : txt[i] = "\n" /\ \A j \in 1..(i - 1) : txt[j] # "\n"
    ELSE Len(txt) + 1

RECURSIVE Lines(_)
\* The output read back by lines (without their "\n").
Lines(txt) ==
    IF txt = <<>> THEN <<>>
    ELSE <<SubSeq(txt, 1, FirstNewline(txt) - 1)>>
             \o Lines(SubSeq(txt, FirstNewline(txt) + 1, Len(txt)))

\* The text ends with a whole line.
Complete(txt) == txt = <<>> \/ txt[Len(txt)] = "\n"

\* The lines "Case #i: v_i" (one per solution), or "Case #i:" and "v_i" (two
\* per solution), of the first k of the solutions vals.
ExpectLines(vals, k, nl) ==
    IF nl
    THEN [j \in 1..(2 * k) |->
             IF j % 2 = 1 THEN <<"C", "a", "s", "e", " ", "#">> \o str((j + 1) \div 2) \o <<":">>
             ELSE str(vals[j \div 2])]
    ELSE [i \in 1..k |->
             <<"C", "a", "s", "e", " ", "#">> \o str(i) \o <<":", " ">> \o str(vals[i])]

\* The input file failed under a token read.
InputFault == readFailed = "BrokenPipeError"

\* The input is a count n >= 0 followed by at least n integer tokens.
CountedInts ==
    /\ Len(AllTokens) >= 1 /\ int_ok(AllTokens[1]) /\ CaseCount >= 0
    /\ Len(AllTokens) >= CaseCount + 1
    /\ \A i \in 2..(CaseCount + 1) : int_ok(AllTokens[i])

\* C1: on an input that is a count n >= 0 followed by n integers, the counted
\* driver with the solver that returns the one integer it reads produces
\* exactly those n integers in input order, with exactly n invocations of the
\* solver, all reading from the one token stream: token i + 1 goes to
\* invocation i (whenever the output is consumed to its end).
C1_CountedIdentity ==
    (solver = "one" /\ CountedInts /\ pc = "done" /\ ~pipeHit /\ ~InputFault) =>
        /\ outcome = "returned"
        /\ produced = [i \in 1..CaseCount |-> int(AllTokens[i + 1])]
        /\ solverCalls = CaseCount
        /\ reads = [i \in 1..(CaseCount + 1) |-> i - 1]

C1_Witness ==
    /\ solver = "one" /\ CountedInts /\ pc = "done" /\ ~pipeHit
    /\ CaseCount = 2 /\ Len(produced) = 2 /\ produced[1] # produced[2]

\* C2: on a sink that never breaks, print_code_jam writes one record per
\* solution received, in the order received, numbered from 1 by steps of 1:
\* read back by lines, the output is the lines "Case #i: value_i" when
\* insert_newline is false, and the pairs of lines "Case #i:", "value_i" when
\* it is true; when the function has returned, every solution has its record.
C2_OutputFormat ==
    ~sinkBroken =>
        /\ Complete(sink)
        /\ Lines(sink) = ExpectLines(produced, flushed, insert_newline)
        /\ (pc = "done" /\ outcome = "returned") => flushed = Len(produced)

C2_Witness ==
    /\ ~sinkBroken /\ pc = "done" /\ outcome = "returned"
    /\ insert_newline /\ Len(produced) = 2 /\ Len(Lines(sink)) = 4

\* The input is a count n >= 0 followed by at least n pairs of integers.
CountedPairs ==
    /\ Len(AllTokens) >= 1 /\ int_ok(AllTokens[1]) /\ CaseCount >= 0
    /\ Len(AllTokens) >= 2 * CaseCount + 1
    /\ \A i \in 2..(2 * CaseCount + 1) : int_ok(AllTokens[i])

\* "Case #1: 3\nCase #2: 7\nCase #3: 11\n"
ExampleOutput ==
    <<"C", "a", "s", "e", " ", "#", "1", ":", " ", "3", "\n",
      "C", "a", "s", "e", " ", "#", "2", ":", " ", "7", "\n",
      "C", "a", "s", "e", " ", "#", "3", ":", " ", "1", "1", "\n">>

\* C3: end to end, on a count n followed by n pairs of integers, the counted
\* driver with the solver that returns the sum of the two integers it reads,
\* insert_newline false and a sink that never breaks, writes exactly n lines,
\* line i being "Case #i: a_i + b_i"; the input "3\n1 2\n3 4\n5 6\n" gives
\* "Case #1: 3", "Case #2: 7", "Case #3: 11".
C3_EndToEndSums ==
    (solver = "sum2" /\ ~insert_newline /\ CountedPairs /\ pc = "done" /\ ~sinkBroken
         /\ ~InputFault) =>
        /\ outcome = "returned"
        /\ Complete(sink)
        /\ Lines(sink) = [i \in 1..CaseCount |->
               <<"C", "a", "s", "e", " ", "#">> \o str(i) \o <<":", " ">>
                   \o str(int(AllTokens[2 * i]) + int(AllTokens[2 * i + 1]))]
        /\ istr = ExampleInput => sink = ExampleOutput

C3_Witness ==
    /\ solver = "sum2" /\ ~insert_newline /\ pc = "done" /\ ~sinkBroken
    /\ istr = ExampleInput /\ sink = ExampleOutput

\* Between the creation of generator g and its end, every token delivered
\* went to g: no other read came in between.
Exclusive(g) ==
    \A i \in (gens[g].start + 1)..gens[g].doneAt : reads[i] = g

\* C4: a next_counted_tokens read on a stream whose next token is the integer
\* n >= 0, with n tokens after it and iterated to its end with no other read
\* in between, consumes the count token and exactly n more tokens, whatever
\* follows them; the next read on the stream gets the first token after those
\* n (or finds the stream exhausted when there is none).
C4_CountedReadsExactlyN ==
    \A g \in DOMAIN gens :
        (/\ gens[g].counted
         /\ gens[g].state = "finished" /\ gens[g].n >= 0
         /\ Len(AllTokens) >= gens[g].start + gens[g].n
         /\ Exclusive(g)) =>
            /\ gens[g].n = int(AllTokens[gens[g].start])
            /\ gens[g].took = gens[g].n
            /\ Len(gens[g].vals) = gens[g].n
            /\ gens[g].doneAt = gens[g].start + gens[g].n
            /\ (last.op = "next_token" /\ last.t = "str" /\ last.at = gens[g].doneAt) =>
                   IF Len(AllTokens) > gens[g].start + gens[g].n
                   THEN last.exc = "none"
                        /\ last.val = AllTokens[gens[g].start + gens[g].n + 1]
                   ELSE last.exc = "StopIteration"

C4_Witness ==
    \E g \in DOMAIN gens :
        /\ gens[g].counted
        /\ gens[g].state = "finished" /\ gens[g].n = 2 /\ gens[g].took = 2
        /\ Exclusive(g)
        /\ last.op = "next_token" /\ last.t = "str" /\ last.exc = "none"
        /\ last.at = gens[g].doneAt
        /\ Len(AllTokens) > gens[g].start + 3

\* A token with a character that is neither a digit nor a sign.
NonNumeric(tok) == \E i \in 1..Len(tok) : ~IsDigit(tok[i]) /\ tok[i] \notin {"-", "+"}

\* C6: next_token(int) on a stream with no token left raises the
\* exhausted-input error (StopIteration), and on a stream whose next token is
\* not a number raises the parse error (ValueError): it returns in neither case.
C6_NextTokenIntFails ==
    (last.op = "next_token" /\ last.t = "int") =>
        /\ last.at >= Len(AllTokens) => last.exc = "StopIteration"
        /\ (last.at < Len(AllTokens) /\ NonNumeric(AllTokens[last.at + 1])) =>
               last.exc = "ValueError"

C6_Witness ==
    /\ last.op = "next_token" /\ last.t = "int" /\ last.exc = "ValueError"
    /\ last.at = 1 /\ NonNumeric(AllTokens[2])

C6_WitnessExhausted ==
    /\ last.op = "next_token" /\ last.t = "int" /\ last.exc = "StopIteration"
    /\ last.at = Len(AllTokens) /\ last.at >= 1

\* C5: once the sink has broken after its j-th record, it holds exactly those
\* j complete records for good, nothing of record j + 1; and the print that
\* runs into the broken sink makes print_code_jam return normally, with no
\* error for its caller.
C5_BrokenPipeStopsCleanly ==
    /\ sinkBroken =>
           /\ flushed = brokenAfter
           /\ Complete(sink)
           /\ Lines(sink) = ExpectLines(produced, brokenAfter, insert_newline)
    /\ pipeHit => (pc = "done" /\ outcome = "returned" /\ err = "none")

C5_Witness ==
    /\ pipeHit /\ brokenAfter = 1 /\ Len(produced) = 2 /\ ~insert_newline
    /\ outcome = "returned" /\ Len(Lines(sink)) = 1

\* C7: in a run of the counted driver, a token read that fails (parse error or
\* exhausted input, for the count or inside the solver) ends the run with an
\* error for the caller, never with a normal return, and the sink holds the
\* complete records of the cases solved before.
C7_ReadFailureSurfaces ==
    (driver = "counted" /\ pc = "done" /\ readFailed \in {"ValueError", "StopIteration"}) =>
        /\ outcome = "raised"
        /\ flushed = Len(produced)
        /\ Complete(sink)
        /\ Lines(sink) = ExpectLines(produced, Len(produced), insert_newline)

\* The first token of the input is a count of 0.
ZeroCount == Len(AllTokens) >= 1 /\ int_ok(AllTokens[1]) /\ CaseCount = 0

\* C8: on an input whose count token is 0 the counted driver never invokes
\* the solver, produces no solution, writes nothing, and returns without
\* error: until it has returned, the run is at the dispatch, at the read of the
\* count, or at the exit of the loop, and nowhere else.
C8_ZeroCases ==
    (ZeroCount /\ ~isgeneratorfunction(solver)) =>
        /\ solverCalls = 0 /\ produced = <<>> /\ sink = <<>>
        /\ outcome # "raised" /\ err = "none"
        /\ pc # "done" =>
               \/ pc = "start"
               \/ pc = "next" /\ driver = "counted" /\ gen = "fresh"
               \/ pc = "next" /\ driver = "counted" /\ gen = "loop" /\ range(left) = 0
        /\ pc = "done" => outcome = "returned"

C8_Witness ==
    /\ ZeroCount /\ solver = "sum2" /\ pc = "done" /\ outcome = "returned"
    /\ Len(AllTokens) = 2 /\ reads = <<0>>

\* C9: the pipeline pulls one solution at a time. The solutions produced are
\* never more than one ahead of the records flushed; a token is read, and the
\* solver is invoked, only when every solution produced so far has been
\* written and flushed; the invocation for case k + 1 starts with k records
\* flushed.
C9_StrictPull ==
    /\ [](/\ Len(produced) - flushed \in {0, 1}
          /\ pc \in {"next", "solving"} => flushed = Len(produced))
    /\ [][/\ (reads' # reads \/ ipos' # ipos \/ cur' # cur) => flushed = Len(produced)
          /\ (driver = "counted" /\ solverCalls' # solverCalls) =>
                 (flushed = solverCalls /\ Len(produced) = solverCalls)]_vars

C9_Witness ==
    /\ driver = "counted" /\ pc = "solving" /\ solverCalls = 2 /\ flushed = 1
    /\ toRead = 0 /\ Len(reads) >= 3

\* C10: the solver's shape picks the driver, once. With a generator function
\* the sequence driver invokes it exactly once, the driver reads no token
\* itself (no case count), and the solutions received are the values the
\* generator yields, in number and order (here every token as an integer,
\* the first one included); with a plain function the counted driver is used,
\* and the first token is read by the driver.
C10_ShapeDispatch ==
    /\ pc # "start" =>
           driver = (IF isgeneratorfunction(solver) THEN "sequence" ELSE "counted")
    /\ (isgeneratorfunction(solver) /\ pc # "start") =>
           /\ solverCalls = 1 /\ driverReads = 0
           /\ Len(produced) <= Len(AllTokens)
           /\ produced = [i \in 1..Len(produced) |-> int(AllTokens[i])]
           /\ reads = [i \in 1..Len(reads) |-> i]
           /\ (pc = "done" /\ outcome = "returned" /\ ~pipeHit /\ ~InputFault) =>
                  Len(produced) = Len(AllTokens)
    /\ (~isgeneratorfunction(solver) /\ reads # <<>>) =>
           reads[1] = 0 /\ driverReads = 1

C10_Witness ==
    /\ solver = "gen" /\ pc = "done" /\ outcome = "returned" /\ ~pipeHit
    /\ Len(produced) = 2 /\ produced[1] = 2 /\ flushed = 2

\* The tokens delivered to reader g among the first k deliveries, in order.
RECURSIVE Received(_, _)
Received(g, k) ==
    IF k = 0 THEN <<>>
    ELSE IF reads[k] = g THEN Append(Received(g, k - 1), delivered[k])
    ELSE Received(g, k - 1)

\* What the parse function t makes of a token it accepts.
Parsed(t, tok) == IF t = "int" THEN int(tok) ELSE tok

\* Generator g has yielded the tokens it took from the stream, parsed, in order.
YieldsItsTokens(g) ==
    LET got == Received(g, Len(reads)) IN
    /\ Len(got) = gens[g].took
    /\ Len(gens[g].vals) <= Len(got)
    /\ \A i \in 1..Len(gens[g].vals) : gens[g].vals[i] = Parsed(gens[g].t, got[i])

\* Generator g stopped before its n-th value though no token failed to parse:
\* the stream was exhausted under it.
RanDry(g) ==
    /\ gens[g].n >= 0 /\ gens[g].state # "suspended"
    /\ Len(gens[g].vals) < gens[g].n
    /\ gens[g].took = Len(gens[g].vals)

\* C11: the sequence next_many_tokens(n, parse) makes yields the tokens it
\* takes from the stream, parsed, in order, and ends normally only after n of
\* them; when the stream is exhausted after m < n it has yielded the m values,
\* it fails instead of ending as a shorter sequence, and the m tokens stay
\* consumed.
C11_ManyYieldsNOrFails ==
    \A g \in DOMAIN gens :
        /\ YieldsItsTokens(g)
        /\ (gens[g].n >= 0 /\ gens[g].state = "finished") =>
               Len(gens[g].vals) = gens[g].n
        /\ RanDry(g) =>
               /\ gens[g].state = "raised"
               /\ Len(reads) >= gens[g].start + gens[g].took

\* C12: broken pipe is the only error a run recovers from: an error of any
\* other kind raised while a solution is produced (a token that does not
\* parse, a read past the end of the input) ends the run with that very
\* error for the caller, neither suppressed nor replaced by another.
C12_OtherErrorsUnmodified ==
    /\ (pc = "done" /\ readFailed \in {"ValueError", "StopIteration"}) =>
           (outcome = "raised" /\ err = readFailed)
    /\ (pc = "done" /\ outcome = "raised") => err = readFailed

\* C13: when the input file raises BrokenPipeError while the next solution is
\* pulled, print_code_jam (under solve_code_jam and generator_solve_code_jam
\* alike) stops and returns normally: no error for the caller, the SIGPIPE
\* disposition reset, and the sink holding the complete records of the
\* solutions produced before.
C13_InputPipeStopsCleanly ==
    InputFault =>
        /\ pc = "done" /\ outcome = "returned" /\ err = "none"
        /\ sigpipe = "SIG_DFL"
        /\ flushed = Len(produced)
        /\ Complete(sink)
        /\ Lines(sink) = ExpectLines(produced, flushed, insert_newline)

C13_Witness ==
    /\ InputFault /\ outcome = "returned"
    /\ driver = "sequence" /\ flushed = 1 /\ Len(Lines(sink)) = 1

C13_WitnessCounted ==
    /\ InputFault /\ outcome = "returned"
    /\ driver = "counted" /\ flushed = 1 /\ pc = "done" /\ left > 0

\* Whitespace, as the claims about tokens mean it.
White(c) == c = " " \/ c = "\n" \/ c = "\t" \/ c = "\r"

\* The positions of s where a maximal run of non-whitespace characters starts.
RunStarts(s) == {i \in 1..Len(s) : ~White(s[i]) /\ (i = 1 \/ White(s[i - 1]))}

\* The last position of the run that starts at i.
RunEnd(s, i) ==
    CHOOSE j \in i..Len(s) :
        /\ \A k \in i..j : ~White(s[k])
        /\ (j = Len(s) \/ White(s[j + 1]))

\* The maximal runs of non-whitespace characters of s, in the order they
\* appear.
MaximalRuns(s) ==
    [k \in 1..Cardinality(RunStarts(s)) |->
        LET i == CHOOSE i \in RunStarts(s) :
                     Cardinality({j \in RunStarts(s) : j < i}) = k - 1
        IN SubSeq(s, i, RunEnd(s, i))]

\* C14: at every moment the tokens delivered so far are the first ones of the
\* maximal non-whitespace runs of the source, in order (a line boundary
\* separates like any whitespace, empty and blank lines give nothing): each
\* is non-empty and free of whitespace, and each delivery adds the next run,
\* none twice, none skipped, none out of order.
C14_TokensArePrefixOfRuns ==
    /\ [](delivered # <<>> =>
            LET runs == MaximalRuns(istr) IN
            /\ Len(delivered) <= Len(runs)
            /\ \A i \in 1..Len(delivered) :
                   /\ delivered[i] = runs[i]
                   /\ delivered[i] # <<>>
                   /\ \A j \in 1..Len(delivered[i]) : ~White(delivered[i][j]))
    /\ [][\/ delivered' = delivered
          \/ /\ Len(delivered') = Len(delivered) + 1
             /\ SubSeq(delivered', 1, Len(delivered)) = delivered]_vars

\* Two tokens delivered from a stream that has an empty line between them.
C14_Witness ==
    /\ Len(delivered) = 2
    /\ \E i \in 1..(Len(istr) - 1) :
           /\ istr[i] = "\n" /\ istr[i + 1] = "\n"
           /\ RunStarts(istr) = {1, i + 2}

\* The sum of the tokens of the i-th block of Arity(solver) tokens after the
\* count.
BlockSum(i) ==
    LET base == 1 + (i - 1) * Arity(solver) IN
    IF Arity(solver) = 1 THEN int(AllTokens[base + 1])
    ELSE int(AllTokens[base + 1]) + int(AllTokens[base + 2])

\* C15: in a run of solve_code_jam the first token read is the count, and the
\* tokens read for case i are a contiguous block of the stream that starts
\* right after the last token of case i - 1 (after the count for case 1):
\* the readers of the delivered tokens never go back to an earlier case, the
\* delivered tokens are the first tokens of the stream with none left out,
\* and solution i is what the solver makes of the block at the position
\* cases 1..i-1 have left.
C15_CaseBlocksContiguous ==
    driver = "counted" =>
        /\ Len(reads) = Len(delivered) /\ Len(delivered) <= Len(AllTokens)
        /\ \A k \in 1..Len(reads) :
               /\ delivered[k] = AllTokens[k]
               /\ (reads[k] = 0) <=> (k = 1)
               /\ k > 1 => reads[k] \in {reads[k - 1], reads[k - 1] + 1}
               /\ reads[k] <= solverCalls
        /\ \A i \in 1..Len(produced) :
               /\ \A k \in 1..Len(reads) :
                      (reads[k] = i) <=>
                          (k \in (2 + (i - 1) * Arity(solver))..(1 + i * Arity(solver)))
               /\ produced[i] = BlockSum(i)

C15_Witness ==
    /\ driver = "counted" /\ solver = "sum2" /\ Len(produced) = 2
    /\ reads = <<0, 1, 1, 2, 2>> /\ produced[1] # produced[2]
    /\ Len(AllTokens) > 5

\* The step makes a new token sequence.
Creates == Len(gens') = Len(gens) + 1

\* C16: making a token sequence reads nothing of its elements:
\* next_many_tokens consumes no token at all, next_counted_tokens exactly its
\* count token, at once. The elements are consumed one per iteration step, by
\* the sequence that is stepped, so a sequence never iterated leaves its
\* tokens to the reads that follow, and sequences outstanding together
\* receive the tokens in the order of their iteration steps, whichever was
\* made first.
C16_LazySequences ==
    /\ [](/\ Len(reads) = Len(delivered) /\ Len(delivered) <= Len(AllTokens)
          /\ \A k \in 1..Len(delivered) : delivered[k] = AllTokens[k]
          /\ \A g \in DOMAIN gens : YieldsItsTokens(g))
    /\ [][/\ Creates =>
               LET new == gens'[Len(gens')] IN
               /\ new.took = 0 /\ new.vals = <<>> /\ new.state = "suspended"
               /\ SubSeq(gens', 1, Len(gens)) = gens
               /\ IF new.counted
                  THEN /\ reads' = Append(reads, 0)
                       /\ Len(delivered') = Len(delivered) + 1
                       /\ new.n = int(delivered'[Len(delivered')])
                  ELSE UNCHANGED tokVars
          /\ ~Creates =>
               /\ Len(gens') = Len(gens)
               /\ Len(delivered') \in {Len(delivered), Len(delivered) + 1}
               /\ \A g \in DOMAIN gens :
                      /\ Len(gens'[g].vals) \in {Len(gens[g].vals), Len(gens[g].vals) + 1}
                      /\ Len(gens'[g].vals) = Len(gens[g].vals) + 1 =>
                             /\ reads' = Append(reads, g)
                             /\ \A h \in DOMAIN gens \ {g} : gens'[h] = gens[h]
                      /\ gens'[g].took # gens[g].took =>
                             reads' = Append(reads, g)]_vars

\* Two sequences outstanding together, the one made second stepped first: it
\* got the earlier token. A third token is left for a later read.
C16_Witness ==
    /\ Len(gens) = 2 /\ reads = <<2, 1>>
    /\ ~gens[1].counted /\ ~gens[2].counted
    /\ gens[1].start = 0 /\ gens[2].start = 0
    /\ gens[1].t = "str" /\ gens[1].vals = <<AllTokens[2]>>
    /\ gens[2].t = "str" /\ gens[2].vals = <<AllTokens[1]>>
    /\ AllTokens[1] # AllTokens[2]

\* A sequence of two tokens made and never stepped: the next read gets the
\* token the sequence would have yielded first.
C16_WitnessUnused ==
    /\ Len(gens) >= 1 /\ gens[1].n = 2 /\ gens[1].took = 0 /\ gens[1].start = 0
    /\ last.op = "next_token" /\ last.t = "str" /\ last.exc = "none"
    /\ last.val = AllTokens[1] /\ reads = <<0>>

\* C17: when the sink raises BrokenPipeError under the print of case k's
\* record, that very step resets the SIGPIPE disposition and ends the run,
\* with the stream, the solver and the sink left as they are; and nothing
\* happens after it: no solution k + 1 is pulled (no solver call, no token
\* consumed) and nothing more is written.
C17_NothingAfterBrokenPipe ==
    /\ [](pipeHit =>
            /\ pc = "done" /\ outcome = "returned" /\ sigpipe = "SIG_DFL"
            /\ flushed = Len(produced) - 1
            /\ Len(reads) = Len(delivered)
            /\ driver = "counted" =>
                   /\ solverCalls = Len(produced)
                   /\ Len(reads) = 1 + Len(produced) * Arity(solver)
            /\ driver = "sequence" => Len(reads) = Len(produced))
    /\ [][/\ (~pipeHit /\ pipeHit') =>
               /\ pc = "print" /\ pc' = "done" /\ sigpipe' = "SIG_DFL"
               /\ UNCHANGED <<tokVars, genVars, outVars, loopVars, solverCalls>>
          /\ pipeHit =>
               UNCHANGED <<tokVars, genVars, outVars, loopVars, solverCalls,
                           sigpipe, outcome, err, pc>>]_vars

\* The pipe broke under case 1 of a run with a case and tokens still to go.
C17_Witness ==
    /\ pipeHit /\ driver = "counted" /\ Len(produced) = 1 /\ flushed = 0
    /\ left >= 1 /\ Len(delivered) < Len(AllTokens)
    /\ solverCalls = 1 /\ sigpipe = "SIG_DFL"

\* The input holds a count n >= 0 and the tokens the solver reads in n cases.
WellCounted ==
    \/ solver = "one" /\ CountedInts
    \/ solver = "sum2" /\ CountedPairs

\* The position of the end of the line that holds the k-th token of the
\* stream.
EndOfLineOfToken(k) ==
    LET i == CHOOSE i \in RunStarts(istr) :
                 Cardinality({j \in RunStarts(istr) : j < i}) = k - 1
    IN IF \E j \in i..Len(istr) : istr[j] = "\n"
       THEN CHOOSE j \in i..Len(istr) :
                istr[j] = "\n" /\ \A h \in i..(j - 1) : istr[h] # "\n"
       ELSE Len(istr)

\* C18: every run comes to its end, whatever follows the cases in the input;
\* and a run of solve_code_jam on a count n >= 0 with its n cases, whose
\* prints all succeed, ends by returning after exactly n invocations of the
\* solver and n records, having consumed the count and the cases' tokens only
\* (what comes after is neither consumed nor reported) and having read the
\* source up to the end of the line of the last token it consumed, no
\* further.
C18_EndsAfterNCases ==
    /\ <>(pc = "done")
    /\ []((pc = "done" /\ driver = "counted" /\ WellCounted /\ ~pipeHit /\ ~InputFault) =>
            /\ outcome = "returned" /\ err = "none"
            /\ solverCalls = CaseCount /\ Len(produced) = CaseCount
            /\ flushed = CaseCount /\ Len(Lines(sink)) = (IF insert_newline THEN 2 ELSE 1) * CaseCount
            /\ Len(delivered) = 1 + CaseCount * Arity(solver)
            /\ \A k \in 1..Len(delivered) : delivered[k] = AllTokens[k]
            /\ ipos = EndOfLineOfToken(Len(delivered)))

\* A run of one case that ended with a token and a line of the input unread.
C18_Witness ==
    /\ pc = "done" /\ driver = "counted" /\ WellCounted /\ ~pipeHit /\ ~InputFault
    /\ CaseCount = 1 /\ solverCalls = 1 /\ flushed = 1
    /\ Len(delivered) < Len(AllTokens) /\ ipos < Len(istr)

\* The first token of the input is a negative count.
NegativeCount == Len(AllTokens) >= 1 /\ int_ok(AllTokens[1]) /\ CaseCount < 0

\* C19: a negative count is a count of zero. A run of solve_code_jam on an
\* input whose count is negative reads the count and nothing else, never
\* invokes the solver, writes no record and returns without error; a token
\* sequence made with a negative n is empty: it ends at its first step,
\* yields nothing and consumes no token.
C19_NegativeIsZero ==
    /\ (driver = "counted" /\ NegativeCount) =>
           /\ solverCalls = 0 /\ produced = <<>> /\ sink = <<>> /\ flushed = 0
           /\ outcome # "raised" /\ err = "none"
           /\ pc \in {"next", "done"}
           /\ \A k \in 1..Len(reads) : k = 1 /\ reads[k] = 0
           /\ gen = "loop" => (left = CaseCount /\ reads = <<0>>)
           /\ pc = "done" => outcome = "returned"
    /\ \A g \in DOMAIN gens :
           gens[g].n < 0 =>
               /\ gens[g].took = 0 /\ gens[g].vals = <<>>
               /\ gens[g].state \in {"suspended", "finished"}
               /\ \A k \in 1..Len(reads) : reads[k] # g

\* A run on a negative count, with tokens after it, that has returned.
C19_Witness ==
    /\ driver = "counted" /\ NegativeCount /\ pc = "done" /\ outcome = "returned"
    /\ reads = <<0>> /\ Len(AllTokens) >= 2 /\ ~InputFault

\* A counted sequence with a negative count, stepped to its end, and a read
\* after it that got the token right after the count.
C19_WitnessSequence ==
    /\ Len(gens) = 1 /\ gens[1].n < 0 /\ gens[1].state = "finished"
    /\ Len(reads) = 2 /\ last.op = "next_token" /\ last.exc = "none" /\ last.at = 1


====
